---- MODULE Spec2Model ----
(***************************************************************************)
(* Model of server/op_generic.c (Netopeer2): op_generic() executes one     *)
(* RPC or action against sysrepo and build_rpc_act_from_output() turns the *)
(* flat sysrepo output values into a libyang reply tree.                   *)
(*                                                                         *)
(* Data trees are instances of one fixed YANG schema:                      *)
(*   container interfaces            (no presence)                         *)
(*     list interface                (with keys)                           *)
(*       action/rpc op               (the RPC node is a top-level op)      *)
(*         input : leaves 1..n       (the request's descendants of op)     *)
(*         output: container result  (no presence)                         *)
(*                   leaf status                                           *)
(*                   container info  (presence)                            *)
(*                     leaf msg      (mandatory)                           *)
(*                 list entry        (with keys)                           *)
(*                 leaf state                                              *)
(*                 anyxml data                                             *)
(***************************************************************************)
EXTENDS Integers, Sequences, FiniteSets, TLC

\* most descendants of the RPC/action node in a request
MaxIn == 2
\* most values sysrepo returns as the output of one RPC/action
MaxOut == 3

VARIABLES
    pc,          \* position of the one op_generic call of the session
    ds,          \* sessions->ds
    srs_ds,      \* the datastore selected in the sysrepo session sessions->srs
    ds_entry,    \* sessions->ds when op_generic was entered
    switches,    \* calls of sr_session_switch_ds made by this op_generic call
    calls,       \* calls of sr_rpc_send/sr_action_send made by this op_generic call
    caller,      \* the tree the caller passed as argument rpc
    work,        \* the tree allocated by this call (act, or reply_data of an RPC)
    rpc,         \* local pointer rpc: [t: tree it points into, n: node]
    act,         \* local pointer act: "null" or the tree it points to
    reply_data,  \* local pointer reply_data: "null" or the tree it points to
    output0,     \* output->type, the type of the first output value
    input,       \* array input[]: xpath of each entry, 0 is NULL
    in_count,
    strs,        \* ly_set strs: the additional buffers kept for input[]
    heap,        \* allocated and not yet freed memory, as [k, i] tokens
    sent,        \* what sr_rpc_send/sr_action_send received as input, in_count
    rc,          \* status returned by sysrepo
    out_count,
    i,           \* loop index of build_rpc_act_from_output
    node,        \* node returned by the last lyd_new_path
    rdflt,       \* output[i].dflt of the last inserted value
    build,       \* what build_rpc_act_from_output did: "none", "run", "ly_errno", "invalid", "valid"
    reply        \* the nc_server_reply returned: [kind, tag, type, msg, data]

vars == <<pc, ds, srs_ds, ds_entry, switches, calls, caller, work, rpc, act, reply_data,
          output0, input, in_count, strs, heap, sent, rc, out_count, i, node, rdflt,
          build, reply>>

-----------------------------------------------------------------------------
(* schema *)

NoNode == "none"
DataNodes == {"interfaces", "interface", "op", "result", "status", "info", "msg", "entry",
              "state", "data"}
OutNodes == {"result", "status", "info", "msg", "entry", "state", "data"}

SchemaParent(n) ==
    CASE n = "interface" -> "interfaces"
      [] n = "op" -> "interface"
      [] n = "result" -> "op"
      [] n = "entry" -> "op"
      [] n = "state" -> "op"
      [] n = "data" -> "op"
      [] n = "status" -> "result"
      [] n = "info" -> "result"
      [] n = "msg" -> "info"
      [] OTHER -> NoNode

\* schema->nodetype; the op node is LYS_RPC at the top level, LYS_ACTION in data
NodeType(t, n) ==
    CASE n \in {"interfaces", "result", "info"} -> "LYS_CONTAINER"
      [] n \in {"interface", "entry"} -> "LYS_LIST"
      [] n \in {"status", "msg", "state"} -> "LYS_LEAF"
      [] n = "data" -> "LYS_ANYXML"
      [] n = "op" -> t.optype
      [] OTHER -> "LYS_UNKNOWN"

\* ((struct lys_node_container *)schema)->presence
Presence(n) == n = "info"
\* ((struct lys_node_list *)schema)->keys_size
KeysSize(n) == IF n \in {"interface", "entry"} THEN 1 ELSE 0

-----------------------------------------------------------------------------
(* trees: ex the nodes present, dflt their default flags, kids the ordered *)
(* children, input the default flags of the input leaves below op, anyfmt  *)
(* the value type the anyxml node data was created with                    *)

NoKids == [n \in DataNodes |-> <<>>]
NoFlags == [n \in DataNodes |-> FALSE]
NoTree == [ex |-> {}, dflt |-> NoFlags, kids |-> NoKids, input |-> <<>>,
           optype |-> "LYS_UNKNOWN", anyfmt |-> "none"]

RpcTree(in) ==
    [ex |-> {"op"}, dflt |-> NoFlags, kids |-> NoKids, input |-> in, optype |-> "LYS_RPC",
     anyfmt |-> "none"]
DataTree(in, withAction) ==
    [ex |-> {"interfaces", "interface"} \cup (IF withAction THEN {"op"} ELSE {}),
     dflt |-> NoFlags,
     kids |-> [NoKids EXCEPT !["interfaces"] = <<"interface">>,
                             !["interface"] = IF withAction THEN <<"op">> ELSE <<>>],
     input |-> in, optype |-> "LYS_ACTION", anyfmt |-> "none"]

\* node->parent
ParentOf(t, n) == IF SchemaParent(n) \in t.ex THEN SchemaParent(n) ELSE NoNode
\* node->child
ChildOf(t, n) == IF t.kids[n] = <<>> THEN NoNode ELSE Head(t.kids[n])

Deref(p) == IF p = "caller" THEN caller ELSE work

Null == [t |-> "null", n |-> NoNode]
Tok(k, x) == [k |-> k, i |-> x]
NoSent == [variant |-> "none", input |-> <<>>]
NoReply == [kind |-> "none", tag |-> "none", type |-> "none", msg |-> "none", data |-> FALSE]

-----------------------------------------------------------------------------
Init ==
    /\ pc = "idle"
    /\ ds \in {"SR_DS_RUNNING", "SR_DS_CANDIDATE"}
    /\ srs_ds = ds
    /\ ds_entry = ds
    /\ switches = 0
    /\ calls = 0
    /\ caller = NoTree
    /\ work = NoTree
    /\ rpc = Null
    /\ act = "null"
    /\ reply_data = "null"
    /\ output0 = "none"
    /\ input = <<>>
    /\ in_count = 0
    /\ strs = <<>>
    /\ heap = {}
    /\ sent = NoSent
    /\ rc = "none"
    /\ out_count = 0
    /\ i = 0
    /\ node = NoNode
    /\ rdflt = FALSE
    /\ build = "none"
    /\ reply = NoReply

-----------------------------------------------------------------------------
(* a NETCONF client sends an RPC or an action: op_generic(rpc, ncs) is called *)

FlagSeqs == UNION {[1..k -> BOOLEAN] : k \in 0..MaxIn}

Call ==
    /\ pc = "idle"
    /\ \E kind \in {"rpc", "action", "data"}, in \in FlagSeqs :
         /\ kind = "data" => in = <<>>
         /\ caller' = IF kind = "rpc" THEN RpcTree(in) ELSE DataTree(in, kind = "action")
         /\ rpc' = [t |-> "caller", n |-> IF kind = "rpc" THEN "op" ELSE "interfaces"]
    /\ pc' = "ds"
    /\ ds_entry' = ds
    /\ UNCHANGED <<ds, srs_ds, switches, calls, work, act, reply_data, output0, input,
                   in_count, strs, heap, sent, rc, out_count, i, node, rdflt, build, reply>>

\* faulty variant: the datastore is switched on every call
NeedSwitch_Always(d) == TRUE

\* faulty variant: the datastore is never switched
NeedSwitch_Never(d) == FALSE

\* line 103
NeedSwitch(d) == d # "SR_DS_RUNNING"

\* lines 101-106; the status sr_session_switch_ds returns is not looked at
SelectDs ==
    /\ pc = "ds"
    /\ IF NeedSwitch(ds)
       THEN /\ \E ok \in BOOLEAN : srs_ds' = IF ok THEN "SR_DS_RUNNING" ELSE srs_ds
            /\ ds' = "SR_DS_RUNNING"
            /\ switches' = switches + 1
       ELSE UNCHANGED <<ds, srs_ds, switches>>
    /\ pc' = "shape"
    /\ UNCHANGED <<ds_entry, calls, caller, work, rpc, act, reply_data, output0, input,
                   in_count, strs, heap, sent, rc, out_count, i, node, rdflt, build, reply>>

\* the trees after the tree p points to was given the value v
Store(p, v) ==
    /\ caller' = IF p = "caller" THEN v ELSE caller
    /\ work' = IF p = "work" THEN v ELSE work

\* label error, lines 212-229: what is left of the heap h
ErrorFree(h, inp, cnt, st) ==
    h \ ({Tok("set", 0), Tok("strs", 0), Tok("input", 0), Tok("output", 0)}
         \cup {Tok("str", st[j]) : j \in 1..Len(st)}
         \cup {Tok("xpath", inp[j]) : j \in 1..cnt})

OpFailed == [kind |-> "error", tag |-> "operation-failed", type |-> "app",
             msg |-> "lasterr", data |-> FALSE]

\* LY_TREE_DFS_BEGIN / LY_TREE_DFS_END: the nodes of t from n in depth-first order
RECURSIVE Preorder(_, _)
Preorder(t, todo) ==
    IF todo = <<>> THEN <<>>
    ELSE <<Head(todo)>> \o Preorder(t, t.kids[Head(todo)] \o Tail(todo))

\* lines 116-121: the first node of kind action, NoNode when the loop ends with rpc NULL
DfsAction(t, root) ==
    LET seq == Preorder(t, <<root>>)
        hit == {j \in 1..Len(seq) : NodeType(t, seq[j]) = "LYS_ACTION"}
    IN  IF hit = {} THEN NoNode
        ELSE seq[CHOOSE j \in hit : \A k \in hit : j <= k]

\* faulty variant: no duplicate is made, act points to the tree of the caller
LydDup_Alias(p) == p

\* lyd_dup(rpc, 1), line 110: the tree the duplicate of tree p lives in
LydDup(p) == "work"

\* lines 108-126
DetectShape ==
    /\ pc = "shape"
    /\ IF NodeType(Deref(rpc.t), rpc.n) # "LYS_RPC"
       THEN \E dup \in BOOLEAN :
              IF ~dup
              THEN \* lyd_dup failed
                   /\ UNCHANGED <<caller, work, act, rpc>>
                   /\ heap' = ErrorFree(heap, input, in_count, strs)
                   /\ reply' = OpFailed
                   /\ pc' = "done"
              ELSE LET a == LydDup(rpc.t)
                       found == DfsAction(Deref(rpc.t), rpc.n)
                   IN  /\ Store(a, Deref(rpc.t))
                       /\ act' = a
                       /\ IF found = NoNode
                          THEN /\ rpc' = Null
                               /\ heap' = ErrorFree(heap \cup {Tok("act", 0)}, input, in_count, strs)
                               /\ reply' = OpFailed
                               /\ pc' = "done"
                          ELSE /\ rpc' = [t |-> a, n |-> found]
                               /\ heap' = heap \cup {Tok("act", 0)}
                               /\ reply' = reply
                               /\ pc' = "flatten"
       ELSE /\ pc' = "flatten"
            /\ UNCHANGED <<caller, work, act, rpc, heap, reply>>
    /\ UNCHANGED <<ds, srs_ds, ds_entry, switches, calls, reply_data, output0, input,
                   in_count, strs, sent, rc, out_count, i, node, rdflt, build>>

\* lyd_find_path(rpc, ".//*"): the descendants of rpc in document order
LydFindPath(t, n) == [k \in 1..Len(t.input) |-> [id |-> k, dflt |-> t.input[k]]]

\* lines 138-151; conv[k] is what op_set_srval does with descendant k:
\* "ok", "str" (ok, with additional memory returned in str) or "fail".
\* op_set_srval is called with dup = 0: the entry takes the path of lyd_path().
RECURSIVE FlattenLoop(_, _, _, _)
FlattenLoop(k, set, conv, st) ==
    IF k > Len(set) THEN st
    ELSE IF set[k].dflt
    THEN FlattenLoop(k + 1, set, conv, [st EXCEPT !.in_count = @ - 1])
    ELSE LET s1 == [st EXCEPT !.input[k] = set[k].id,
                              !.heap = @ \cup {Tok("xpath", set[k].id)}] IN
         IF conv[k] = "fail" THEN [s1 EXCEPT !.failed = TRUE]
         ELSE IF conv[k] = "str"
         THEN FlattenLoop(k + 1, set, conv,
                          [s1 EXCEPT !.strs = Append(@, set[k].id),
                                     !.heap = @ \cup {Tok("str", set[k].id)}])
         ELSE FlattenLoop(k + 1, set, conv, s1)

\* lines 128-154
Flatten ==
    /\ pc = "flatten"
    /\ LET set == LydFindPath(Deref(rpc.t), rpc.n)
           n == Len(set)
       IN  IF n = 0
           THEN /\ UNCHANGED <<input, in_count, strs, heap, reply>>
                /\ pc' = "send"
           ELSE \E mem \in {"ok", "no_input", "no_strs"}, conv \in [1..n -> {"ok", "str", "fail"}] :
                  IF mem = "no_input"
                  THEN \* calloc failed: label error reads input[i].xpath through NULL,
                       \* the process is killed or the read goes unnoticed
                       /\ UNCHANGED <<input, strs>>
                       /\ in_count' = n
                       /\ heap' = heap
                       /\ reply' \in {[NoReply EXCEPT !.kind = "crash"], OpFailed}
                       /\ pc' = "done"
                  ELSE IF mem = "no_strs"
                  THEN /\ input' = [k \in 1..n |-> 0]
                       /\ strs' = strs
                       /\ in_count' = n
                       /\ heap' = ErrorFree(heap \cup {Tok("set", 0), Tok("input", 0)},
                                            [k \in 1..n |-> 0], n, <<>>)
                       /\ reply' = OpFailed
                       /\ pc' = "done"
                  ELSE LET st0 == [input |-> [k \in 1..n |-> 0], in_count |-> n, strs |-> <<>>,
                                   heap |-> heap \cup {Tok("set", 0), Tok("input", 0), Tok("strs", 0)},
                                   failed |-> FALSE]
                           st == FlattenLoop(1, set, conv, st0)
                       IN  /\ input' = st.input
                           /\ in_count' = st.in_count
                           /\ strs' = st.strs
                           /\ IF st.failed
                              THEN /\ heap' = ErrorFree(st.heap, st.input, st.in_count, st.strs)
                                   /\ reply' = OpFailed
                                   /\ pc' = "done"
                              ELSE /\ heap' = st.heap \ {Tok("set", 0)}
                                   /\ reply' = reply
                                   /\ pc' = "send"
    /\ UNCHANGED <<ds, srs_ds, ds_entry, switches, calls, caller, work, rpc, act, reply_data,
                   output0, sent, rc, out_count, i, node, rdflt, build>>

-----------------------------------------------------------------------------
(* libyang tree operations used by the reply assembly *)

RECURSIVE Below(_, _)
\* whether node n lies below node a in the schema
Below(a, n) ==
    IF SchemaParent(n) = NoNode THEN FALSE
    ELSE SchemaParent(n) = a \/ Below(a, SchemaParent(n))

\* lyd_dup(node, 0): the node alone, without children and without parent
LydDupNode(t, n) ==
    [ex |-> {n}, dflt |-> [m \in DataNodes |-> m = n /\ t.dflt[m]], kids |-> NoKids,
     input |-> <<>>, optype |-> t.optype, anyfmt |-> "none"]

\* faulty variant: the children of n are kept
LydFreeChildren_Keep(t, n) == t

\* lyd_free_withsiblings(n->child): n loses all its children
LydFreeChildren(t, n) ==
    [t EXCEPT !.ex = {m \in @ : ~Below(n, m)},
              !.dflt = [m \in DataNodes |-> ~Below(n, m) /\ @[m]],
              !.kids = [m \in DataNodes |-> IF m = n \/ Below(n, m) THEN <<>> ELSE @[m]],
              !.input = <<>>,
              !.anyfmt = IF Below(n, "data") THEN "none" ELSE @]

RECURSIVE Chain(_, _)
\* the nodes of the path of n relative to root, top-down
Chain(root, n) ==
    IF n = root \/ n = NoNode THEN <<>> ELSE Append(Chain(root, SchemaParent(n)), n)

RECURSIVE Create(_, _, _)
\* the nodes of seq created top-down, each appended to the children of its parent,
\* with a clear default flag; an anyxml node keeps its value as of type vtype
Create(t, seq, vtype) ==
    IF seq = <<>> THEN t
    ELSE LET n == Head(seq) IN
         Create([t EXCEPT !.ex = @ \cup {n},
                          !.dflt[n] = FALSE,
                          !.kids[SchemaParent(n)] = Append(@, n),
                          !.anyfmt = IF NodeType(t, n) = "LYS_ANYXML" THEN vtype ELSE @],
                Tail(seq), vtype)

\* lyd_new_path(parent, ctx, xpath, value, vtype, LYD_PATH_OPT_UPDATE | LYD_PATH_OPT_OUTPUT)
\* for an output value r = [path, dflt, change]: returns the first created node, or
\* the updated leaf when the whole path exists and the value differs (change),
\* or NULL; ly_errno is set when the path is no output node of the schema.
LydNewPath(t, root, r, vtype) ==
    IF r.path \notin OutNodes THEN [tree |-> t, node |-> NoNode, ly_errno |-> TRUE]
    ELSE LET missing == SelectSeq(Chain(root, r.path), LAMBDA n : n \notin t.ex) IN
         IF missing # <<>>
         THEN [tree |-> Create(t, missing, vtype), node |-> Head(missing), ly_errno |-> FALSE]
         ELSE IF NodeType(t, r.path) = "LYS_LEAF" /\ r.change
         THEN [tree |-> [t EXCEPT !.dflt[r.path] = FALSE], node |-> r.path, ly_errno |-> FALSE]
         ELSE [tree |-> t, node |-> NoNode, ly_errno |-> FALSE]

\* faulty variant: the result of the validation is not looked at
LydValidate_Skip(t) == TRUE

\* lyd_validate(&rpc_act, LYD_OPT_RPCREPLY, NULL): leaf msg is mandatory in info
LydValidate(t) == "info" \in t.ex => "msg" \in t.ex

-----------------------------------------------------------------------------
(* build_rpc_act_from_output, lines 47-74: the default flag propagation *)

RECURSIVE GoDown(_, _)
\* lines 51-53
GoDown(t, iter) ==
    IF NodeType(t, iter) \in {"LYS_LEAF", "LYS_LEAFLIST", "LYS_ANYXML"} \/ ChildOf(t, iter) = NoNode
    THEN iter
    ELSE GoDown(t, ChildOf(t, iter))

RECURSIVE GoUp_NoPresence(_, _, _)
\* faulty variant: the walk up does not stop at a presence container
GoUp_NoPresence(t, iter, nd) ==
    IF NodeType(t, iter) = "LYS_LIST" /\ KeysSize(iter) > 0 THEN t
    ELSE LET t1 == [t EXCEPT !.dflt[iter] = TRUE] IN
         IF iter = nd THEN t1 ELSE GoUp_NoPresence(t1, ParentOf(t, iter), nd)

RECURSIVE GoUp_Toggle(_, _, _)
\* faulty variant: the walk up flips the flag instead of setting it
GoUp_Toggle(t, iter, nd) ==
    IF NodeType(t, iter) = "LYS_CONTAINER" /\ Presence(iter) THEN t
    ELSE IF NodeType(t, iter) = "LYS_LIST" /\ KeysSize(iter) > 0 THEN t
    ELSE LET t1 == [t EXCEPT !.dflt[iter] = ~@] IN
         IF iter = nd THEN t1 ELSE GoUp_Toggle(t1, ParentOf(t, iter), nd)

RECURSIVE GoUp_PastNode(_, _, _)
\* faulty variant: the walk up does not end at the node lyd_new_path returned
GoUp_PastNode(t, iter, nd) ==
    IF iter = NoNode THEN t
    ELSE IF NodeType(t, iter) = "LYS_CONTAINER" /\ Presence(iter) THEN t
    ELSE IF NodeType(t, iter) = "LYS_LIST" /\ KeysSize(iter) > 0 THEN t
    ELSE GoUp_PastNode([t EXCEPT !.dflt[iter] = TRUE], ParentOf(t, iter), nd)

RECURSIVE GoUp(_, _, _)
\* lines 55-68: the tree after the walk from iter up to nd
GoUp(t, iter, nd) ==
    IF NodeType(t, iter) = "LYS_CONTAINER" /\ Presence(iter) THEN t
    ELSE IF NodeType(t, iter) = "LYS_LIST" /\ KeysSize(iter) > 0 THEN t
    ELSE LET t1 == [t EXCEPT !.dflt[iter] = TRUE] IN
         IF iter = nd THEN t1 ELSE GoUp(t1, ParentOf(t, iter), nd)

RECURSIVE ClearUp_NoStop(_, _)
\* faulty variant: the walk does not stop at the first parent that is not default
ClearUp_NoStop(t, iter) ==
    IF iter # NoNode
    THEN ClearUp_NoStop([t EXCEPT !.dflt[iter] = FALSE], ParentOf(t, iter))
    ELSE t

RECURSIVE ClearUp(_, _)
\* lines 70-72: the tree after the walk from iter to the root
ClearUp(t, iter) ==
    IF iter # NoNode /\ t.dflt[iter]
    THEN ClearUp([t EXCEPT !.dflt[iter] = FALSE], ParentOf(t, iter))
    ELSE t

\* faulty variant: no default flag is propagated
Propagate_None(t, nd, dflt) == t

\* lines 49-73, for the node nd that lyd_new_path returned
Propagate(t, nd, dflt) ==
    IF dflt THEN GoUp(t, GoDown(t, nd), nd) ELSE ClearUp(t, ParentOf(t, nd))

-----------------------------------------------------------------------------
(* op_generic, second half *)

SrCodes == {"SR_ERR_OK", "SR_ERR_UNKNOWN_MODEL", "SR_ERR_NOT_FOUND", "SR_ERR_INTERNAL",
            "SR_ERR_UNAUTHORIZED"}

NotSupported == [kind |-> "error", tag |-> "operation-not-supported", type |-> "prot",
                 msg |-> "none", data |-> FALSE]
\* label srerror, line 210: op_build_err_sr(NULL, sessions->srs)
SrError == [kind |-> "error", tag |-> "backend-error", type |-> "app", msg |-> "sr",
            data |-> FALSE]
ReplyOk == [NoReply EXCEPT !.kind = "ok"]
ReplyData == [NoReply EXCEPT !.kind = "data", !.data = TRUE]

\* the allocation reply_data points to
ReplyTok == IF act = "null" THEN Tok("reply_data", 0) ELSE Tok("act", 0)

\* lines 163-177: what is left of the heap h after the request is freed
SendFree(h, inp, cnt, st) ==
    h \ ({Tok("strs", 0), Tok("input", 0)}
         \cup {Tok("str", st[j]) : j \in 1..Len(st)}
         \cup {Tok("xpath", inp[j]) : j \in 1..cnt})

\* faulty variant: SR_ERR_NOT_FOUND is not mapped to operation-not-supported
AfterSend_OnlyUnknownModel(r, n) ==
    IF r = "SR_ERR_UNKNOWN_MODEL" THEN "not_supported"
    ELSE IF r # "SR_ERR_OK" THEN "srerror"
    ELSE IF n # 0 THEN "build"
    ELSE "ok"

\* faulty variant: out_count is not looked at, a reply tree is built for every success
AfterSend_NoCountCheck(r, n) ==
    IF r = "SR_ERR_UNKNOWN_MODEL" \/ r = "SR_ERR_NOT_FOUND" THEN "not_supported"
    ELSE IF r # "SR_ERR_OK" THEN "srerror"
    ELSE "build"

\* lines 179-207: where the call goes after sysrepo returned r with n output values
AfterSend(r, n) ==
    IF r = "SR_ERR_UNKNOWN_MODEL" \/ r = "SR_ERR_NOT_FOUND" THEN "not_supported"
    ELSE IF r # "SR_ERR_OK" THEN "srerror"
    ELSE IF n # 0 THEN "build"
    ELSE "ok"

\* lines 156-194 and 204-207
Send ==
    /\ pc = "send"
    /\ \E r \in SrCodes, n \in 0..MaxOut :
         /\ r # "SR_ERR_OK" => n = 0
         /\ rc' = r
         /\ out_count' = n
         /\ calls' = calls + 1
         /\ sent' = [variant |-> IF act = "null" THEN "sr_rpc_send" ELSE "sr_action_send",
                     input |-> SubSeq(input, 1, in_count)]
         /\ LET h == SendFree(heap, input, in_count, strs)
                to == AfterSend(r, n)
            IN  CASE to = "not_supported" ->
                       /\ reply' = NotSupported
                       /\ heap' = h
                       /\ pc' = "done"
                       /\ UNCHANGED <<caller, work, reply_data, build>>
                  [] to = "srerror" ->
                       /\ reply' = SrError
                       /\ heap' = h
                       /\ pc' = "done"
                       /\ UNCHANGED <<caller, work, reply_data, build>>
                  [] to = "build" ->
                       /\ IF act = "null"
                          THEN /\ Store("work", LydDupNode(Deref(rpc.t), rpc.n))
                               /\ reply_data' = "work"
                               /\ heap' = (h \cup {Tok("reply_data", 0)})
                                          \cup (IF n > 0 THEN {Tok("output", 0)} ELSE {})
                          ELSE /\ Store(rpc.t, LydFreeChildren(Deref(rpc.t), rpc.n))
                               /\ reply_data' = act
                               /\ heap' = h \cup (IF n > 0 THEN {Tok("output", 0)} ELSE {})
                       /\ build' = "run"
                       /\ reply' = reply
                       /\ pc' = "build"
                  [] OTHER ->
                       /\ Store(act, NoTree)
                       /\ reply_data' = reply_data
                       /\ heap' = h \ {Tok("act", 0)}
                       /\ reply' = ReplyOk
                       /\ pc' = "done"
                       /\ build' = build
    /\ input' = <<>>
    /\ in_count' = 0
    /\ strs' = <<>>
    /\ UNCHANGED <<ds, srs_ds, ds_entry, switches, rpc, act, output0, i, node, rdflt>>

\* the values sysrepo may return: xpath, default flag, and whether the value differs
\* from the one of an existing node (only a leaf has a value to differ from)
OutValues ==
    {r \in [path : OutNodes \cup {"nosuch"}, dflt : BOOLEAN, change : BOOLEAN] :
        /\ r.change => r.path \in {"status", "msg", "state"}
        /\ r.path = "nosuch" => ~r.dflt}

\* output[i].type of the value for path n
SrType(n) ==
    CASE n = "data" -> "SR_ANYXML_T"
      [] n = "info" -> "SR_CONTAINER_PRESENCE_T"
      [] n = "result" -> "SR_CONTAINER_T"
      [] n = "entry" -> "SR_LIST_T"
      [] OTHER -> "SR_STRING_T"

\* line 41: the value type passed to lyd_new_path, chosen by the type t0 of output[0]
ValueType(t0) ==
    IF t0 = "SR_ANYXML_T" \/ t0 = "SR_ANYDATA_T" THEN "LYD_ANYDATA_SXML"
    ELSE "LYD_ANYDATA_CONSTSTRING"

\* lines 39-74: one round of the loop for the value r in tree t
BuildRound(t, r, vtype) ==
    LET new == LydNewPath(t, "op", r, vtype) IN
    IF ~new.ly_errno /\ new.node # NoNode
    THEN [new EXCEPT !.tree = Propagate(new.tree, new.node, r.dflt)]
    ELSE new

\* the tree build_rpc_act_from_output works on, lines 189 and 192
BuildTree == IF act = "null" THEN reply_data ELSE rpc.t

\* lines 38-75, one round of the loop; with ly_errno set, lines 44 and 196-199, 210
BuildStep ==
    /\ pc = "build"
    /\ i < out_count
    /\ \E r \in OutValues :
         LET t0 == IF i = 0 THEN SrType(r.path) ELSE output0
             new == BuildRound(Deref(BuildTree), r, ValueType(t0))
         IN
         /\ output0' = t0
         /\ rdflt' = r.dflt
         /\ node' = new.node
         /\ IF new.ly_errno
            THEN /\ build' = "ly_errno"
                 /\ Store(reply_data, NoTree)
                 /\ heap' = heap \ {Tok("output", 0), ReplyTok}
                 /\ reply' = SrError
                 /\ pc' = "done"
                 /\ i' = i
            ELSE /\ Store(BuildTree, new.tree)
                 /\ i' = i + 1
                 /\ UNCHANGED <<build, heap, reply, pc>>
    /\ UNCHANGED <<ds, srs_ds, ds_entry, switches, calls, rpc, act, reply_data, input,
                   in_count, strs, sent, rc, out_count>>

\* lines 76-80 and 196-203, 210
BuildEnd ==
    /\ pc = "build"
    /\ i = out_count
    /\ IF LydValidate(Deref(BuildTree))
       THEN /\ build' = "valid"
            /\ UNCHANGED <<caller, work>>
            /\ heap' = heap \ {Tok("output", 0), ReplyTok}
            /\ reply' = ReplyData
       ELSE /\ build' = "invalid"
            /\ Store(reply_data, NoTree)
            /\ heap' = heap \ {Tok("output", 0), ReplyTok}
            /\ reply' = SrError
    /\ pc' = "done"
    /\ UNCHANGED <<ds, srs_ds, ds_entry, switches, calls, rpc, act, reply_data, output0,
                   input, in_count, strs, sent, rc, out_count, i, node, rdflt>>

\* the reply is handed to the NETCONF session; the session is ready for its next RPC
Return ==
    /\ pc = "done"
    /\ reply.kind # "crash"
    /\ pc' = "idle"
    /\ ds_entry' = ds
    /\ switches' = 0
    /\ calls' = 0
    /\ caller' = NoTree
    /\ work' = NoTree
    /\ rpc' = Null
    /\ act' = "null"
    /\ reply_data' = "null"
    /\ output0' = "none"
    /\ input' = <<>>
    /\ in_count' = 0
    /\ strs' = <<>>
    /\ heap' = {}
    /\ sent' = NoSent
    /\ rc' = "none"
    /\ out_count' = 0
    /\ i' = 0
    /\ node' = NoNode
    /\ rdflt' = FALSE
    /\ build' = "none"
    /\ reply' = NoReply
    /\ UNCHANGED <<ds, srs_ds>>

Next ==
    \/ Call
    \/ SelectDs
    \/ DetectShape
    \/ Flatten
    \/ Send
    \/ BuildStep
    \/ BuildEnd
    \/ Return

Spec == Init /\ [][Next]_vars

-----------------------------------------------------------------------------
(* properties *)

Returned == pc = "done" /\ reply.kind \in {"data", "ok", "error"}
Failed == pc = "done" /\ reply.kind = "error"

\* C1: the records passed to the backend (the first in_count entries of input[])
\* hold no record for a descendant with the default flag set and exactly one
\* record, with its path, for every descendant with the default flag clear.
C1_FlattenSkipLaw ==
    sent.variant # "none" =>
        LET set == LydFindPath(caller, "op") IN
        \A k \in 1..Len(set) :
            LET hits == {j \in 1..Len(sent.input) : sent.input[j] = set[k].id} IN
            IF set[k].dflt THEN hits = {} ELSE Cardinality(hits) = 1

\* C2: when op_generic returns, on any exit path, every path of a request record
\* and every additional value buffer made while flattening has been freed.
C2_RequestFreed ==
    Returned => \A m \in heap : m.k \notin {"xpath", "str"}

\* C3: when the call ends in a failure outcome, the duplicated envelope of an
\* action and any reply tree under construction have been freed.
C3_TreesFreedOnFailure ==
    Failed => Tok("act", 0) \notin heap /\ Tok("reply_data", 0) \notin heap

\* C4: a reply tree is returned only if every output value was inserted without
\* error and the tree is valid (its mandatory node is present); when an
\* insertion or the validation fails the tree is freed and an error without
\* reply tree is returned.
C4_ValidationGate ==
    pc = "done" =>
        /\ reply.data =>
             /\ reply.kind = "data"
             /\ i = out_count
             /\ build = "valid"
             /\ ("info" \in work.ex => "msg" \in work.ex)
        /\ build \in {"invalid", "ly_errno"} =>
             /\ reply.kind = "error"
             /\ ~reply.data
             /\ work = NoTree
             /\ ReplyTok \notin heap

C4_Witness ==
    /\ pc = "done"
    /\ build = "invalid"
    /\ i = out_count
    /\ reply.kind = "error"

\* C5: when sysrepo succeeded and the validation of the reply tree fails, the
\* error returned is operation-failed with the last logged message, not the
\* sysrepo error.
C5_ValidationErrorIsOpFailed ==
    (pc = "done" /\ rc = "SR_ERR_OK" /\ build = "invalid") =>
        reply.tag = "operation-failed" /\ reply.msg = "lasterr"

\* C6: SR_ERR_UNKNOWN_MODEL and SR_ERR_NOT_FOUND give exactly
\* operation-not-supported (protocol error, no message, no reply tree), every
\* other failure status gives the sysrepo error; no reply tree is built or
\* returned in either case.
C6_StatusMapping ==
    (pc = "done" /\ rc \notin {"none", "SR_ERR_OK"}) =>
        /\ rc \in {"SR_ERR_UNKNOWN_MODEL", "SR_ERR_NOT_FOUND"} =>
             /\ reply.kind = "error"
             /\ reply.tag = "operation-not-supported"
             /\ reply.type = "prot"
             /\ reply.msg = "none"
        /\ rc \notin {"SR_ERR_UNKNOWN_MODEL", "SR_ERR_NOT_FOUND"} =>
             /\ reply.kind = "error"
             /\ reply.tag = "backend-error"
        /\ ~reply.data
        /\ build = "none"
        /\ i = 0
        /\ Tok("reply_data", 0) \notin heap

C6_Witness ==
    /\ pc = "done"
    /\ rc = "SR_ERR_NOT_FOUND"
    /\ reply.tag = "operation-not-supported"

\* C7: when sysrepo succeeds with no output value, the reply is a bare ok and no
\* reply tree, for an RPC and for an action; nothing is built or validated.
C7_NoPayloadAck ==
    (pc = "done" /\ rc = "SR_ERR_OK" /\ out_count = 0) =>
        /\ reply.kind = "ok"
        /\ ~reply.data
        /\ build = "none"
        /\ i = 0

C7_Witness ==
    /\ pc = "done"
    /\ rc = "SR_ERR_OK"
    /\ out_count = 0
    /\ act = "work"
    /\ reply.kind = "ok"

\* C8: no presence container and no list with keys of the reply tree ever has
\* its default flag set, whatever was inserted below it.
C8_PropagationBoundary ==
    \A n \in work.ex :
        \/ NodeType(work, n) = "LYS_CONTAINER" /\ Presence(n)
        \/ NodeType(work, n) = "LYS_LIST" /\ KeysSize(n) > 0
        => ~work.dflt[n]

C8_Witness ==
    /\ pc = "build"
    /\ rdflt
    /\ node = "result"
    /\ "info" \in work.ex
    /\ work.dflt["msg"]
    /\ ~work.dflt["result"]

\* C9: after the insertion of a value that is not default, the flags of the
\* parents of the inserted node are cleared from its parent upward as long as
\* they were set; the first parent whose flag was clear ends the walk, and
\* every other flag is as the insertion left it.
C9_ClearOnNonDefault ==
    [][(pc = "build" /\ i' = i + 1 /\ node' # NoNode /\ ~rdflt') =>
         \A n \in DataNodes :
             LET run == /\ Below(n, node')
                        /\ \A m \in DataNodes :
                               (Below(m, node') /\ (m = n \/ Below(n, m))) => work.dflt[m]
             IN  work'.dflt[n] = IF n = node' \/ run THEN FALSE ELSE work.dflt[n]]_vars

C9_Witness ==
    /\ pc = "build"
    /\ ~rdflt
    /\ node = "msg"
    /\ ~work.dflt["info"]
    /\ work.dflt["result"]

\* C10: running the propagation a second time for the same node and the same
\* flag leaves every default flag of the tree as the first run left it.
C10_PropagationIdempotent ==
    (pc = "build" /\ node # NoNode) => Propagate(work, node, rdflt) = work

C10_Witness ==
    /\ pc = "build"
    /\ node = "result"
    /\ rdflt
    /\ work.dflt["status"]
    /\ work.dflt["result"]

\* the action reply whose one value is the leaf state of the action node op in the
\* list entry interface, inserted with its default flag set
ResetStatusDefault ==
    /\ pc = "build"
    /\ act # "null"
    /\ out_count = 1
    /\ i = 1
    /\ node = "state"
    /\ rdflt

\* C11 as stated: after the one default value for the leaf below the action node
\* was inserted, the leaf is default, the action node is default too, and the
\* keyed list entry above it is not.
C11_ActionNodeDefault ==
    ResetStatusDefault =>
        /\ work.dflt["state"]
        /\ work.dflt["op"]
        /\ ~work.dflt["interface"]

\* C11 amended: after the one default value for the leaf below the action node
\* was inserted, only the leaf is default: the walk up ends at the created node,
\* so neither the action node nor the keyed list entry above it is default.
C11_OnlyLeafDefault ==
    ResetStatusDefault =>
        /\ work.dflt["state"]
        /\ ~work.dflt["op"]
        /\ ~work.dflt["interface"]
        /\ ~work.dflt["interfaces"]

C11_Witness ==
    /\ ResetStatusDefault
    /\ work.dflt["state"]
    /\ work.kids["op"] = <<"state">>
    /\ {"interfaces", "interface", "op"} \subseteq work.ex

\* C12: from the entry of op_generic to its return the tree the caller passed is
\* left as it was: the children are freed, the output nodes inserted and the
\* default flags changed in a duplicate, for an RPC and for an action.
C12_CallerTreeKept ==
    [][(pc # "idle" /\ pc' # "idle") => caller' = caller]_vars

C12_Witness ==
    /\ pc = "done"
    /\ act # "null"
    /\ reply = ReplyData
    /\ caller.input # <<>>
    /\ work.input = <<>>
    /\ work.dflt["state"]
    /\ "state" \notin caller.ex

\* C13: when sr_rpc_send/sr_action_send is about to be called and after it was
\* called, sessions->ds is the running datastore; one call of op_generic calls
\* sr_session_switch_ds at most once, and not at all when sessions->ds was the
\* running datastore on entry.
C13_RunningWhenSent ==
    /\ (pc = "send" \/ sent.variant # "none") => ds = "SR_DS_RUNNING"
    /\ switches <= 1
    /\ ds_entry = "SR_DS_RUNNING" => switches = 0

C13_Witness ==
    /\ pc = "done"
    /\ sent.variant = "sr_rpc_send"
    /\ ds_entry = "SR_DS_CANDIDATE"
    /\ ds = "SR_DS_RUNNING"
    /\ switches = 1

\* the DFS of lines 116-125 found no action node
ShapeFailed == pc = "done" /\ rpc = Null

\* the steps after the datastore selection and the shape detection are taken in
\* order, each only after the one before it succeeded
LaterStepsInOrder ==
    /\ pc \in {"ds", "shape"} => (input = <<>> /\ heap \subseteq {Tok("act", 0)})
    /\ pc \in {"ds", "shape", "flatten", "send"} => (sent = NoSent /\ build = "none")
    /\ (reply = OpFailed \/ reply.kind = "crash") => (sent = NoSent /\ build = "none")
    /\ sent.variant # "none" => calls = 1
    /\ build # "none" => (sent.variant # "none" /\ rc = "SR_ERR_OK")

BelowOp(t) == {n \in t.ex : Below("op", n)}

\* C15: the tree of a data reply. For an RPC it is the tree allocated by the call,
\* rooted at the duplicate of the RPC node, which starts without children and
\* never holds an input node. For an action it is the duplicate of the whole
\* request tree, with its outer nodes, in which the input children of the action
\* node were freed before the first output node was created.
C15_ReplyTreeShape ==
    /\ (pc = "build" /\ i = 0) =>
          /\ BelowOp(work) = {}
          /\ work.kids["op"] = <<>>
          /\ work.input = <<>>
    /\ (pc \in {"build", "done"} /\ build \in {"run", "valid"} /\ act = "null") =>
          /\ reply_data = "work"
          /\ work.ex \ BelowOp(work) = {"op"}
          /\ BelowOp(work) \subseteq OutNodes
          /\ work.input = <<>>
    /\ (pc \in {"build", "done"} /\ build \in {"run", "valid"} /\ act # "null") =>
          /\ reply_data = act
          /\ act = "work"
          /\ work.ex \ BelowOp(work) = caller.ex
          /\ BelowOp(work) \subseteq OutNodes
          /\ work.input = <<>>
    /\ (pc = "done" /\ reply = ReplyData) => (build = "valid" /\ reply_data # "null")

C15_Witness ==
    /\ pc = "done"
    /\ reply = ReplyData
    /\ act = "work"
    /\ Len(caller.input) = MaxIn
    /\ work.input = <<>>
    /\ BelowOp(work) = {"result", "status"}

\* C16 as stated: every call of op_generic ends by returning one reply (data, ok
\* or an error reply), and calls sr_rpc_send/sr_action_send at most once.
C16_OneOutcome ==
    /\ pc = "done" => reply.kind \in {"data", "ok", "error"}
    /\ calls <= 1
    /\ sent.variant # "none" => calls = 1

\* the tree after the loop of lines 38-75 ran for the two values r1, r2 in tree t
InsertTwo(t, r1, r2) ==
    LET vtype == ValueType(SrType(r1.path)) IN
    BuildRound(BuildRound(t, r1, vtype).tree, r2, vtype).tree

\* the values r1, r2 lie below the node a, and the default flag of a after
\* inserting them into t depends on which of them comes first
OrderMatters(t, r1, r2, a) ==
    /\ r1.path \in OutNodes
    /\ r2.path \in OutNodes
    /\ r1.path # r2.path
    /\ Below(a, r1.path)
    /\ Below(a, r2.path)
    /\ InsertTwo(t, r1, r2).dflt[a] # InsertTwo(t, r2, r1).dflt[a]

\* C17: for the tree the reply is built in, as it is before the first value is
\* inserted, there are two values below a common node whose insertion in the
\* two orders leaves that node with different default flags.
C17_OrderSensitive ==
    (pc = "build" /\ i = 0) =>
        \E r1, r2 \in OutValues, a \in OutNodes : OrderMatters(Deref(BuildTree), r1, r2, a)

\* the build has inserted two values, and in the other order the same two values
\* give a different flag to a node above both
C17_Witness ==
    /\ pc = "build"
    /\ i = 2
    /\ act = "null"
    /\ \E r1, r2 \in OutValues, a \in OutNodes :
          LET t == LydDupNode(caller, "op") IN
          /\ OrderMatters(t, r1, r2, a)
          /\ work = InsertTwo(t, r1, r2)
          /\ work.dflt[a]

\* C18 as stated: while the reply is built, no node with the default flag set
\* has a leaf below it whose flag is clear, and right after a value was inserted
\* as non-default every node above the inserted node has its flag clear.
C18_NoDefaultAboveNonDefault ==
    (pc = "build" /\ build = "run") =>
        LET t == Deref(BuildTree) IN
        /\ \A l \in t.ex, a \in t.ex :
              (NodeType(t, l) = "LYS_LEAF" /\ ~t.dflt[l] /\ Below(a, l)) => ~t.dflt[a]
        /\ (node # NoNode /\ ~rdflt) => \A a \in t.ex : Below(a, node) => ~t.dflt[a]

\* C19 as stated: sessions->ds is the datastore selected in the sysrepo session,
\* at every point of every call, also after sr_session_switch_ds failed.
C19_SelectorMatchesBackend ==
    ds = srs_ds

\* C20 as stated: every value is inserted with the value type of its own type:
\* the anyxml node of the reply was created as LYD_ANYDATA_SXML, and the value
\* type used for any value after the first is the one its own type asks for.
C20_OwnValueType ==
    /\ pc \in {"build", "done"} =>
          \A p \in {"caller", "work"} :
              "data" \in Deref(p).ex => Deref(p).anyfmt = ValueType(SrType("data"))
    /\ (pc = "build" /\ 0 < i /\ i < out_count) =>
          \A r \in OutValues :
              r.path \in OutNodes => ValueType(output0) = ValueType(SrType(r.path))
====
